---- MODULE Spec2Model ----
(***************************************************************************)
(* A model of lenskit.sharing (src/lenskit/sharing/__init__.py): the       *)
(* thread-local sharing-mode flag, the persisted-model handles             *)
(* (BPKPersisted, SHMPersisted) with the files and shared-memory segments  *)
(* behind them, the persist dispatcher, the re-entrant model stores with   *)
(* their thread-local activation stack, and the SharedObject wrapper.      *)
(*                                                                         *)
(* Every action is one call of a function or method of the module, taken   *)
(* atomically; `last` records what that call did (the exception it raised, *)
(* the callbacks it ran, what it returned, whether it warned).             *)
(***************************************************************************)
EXTENDS Integers, Sequences, FiniteSets, TLC

VARIABLES
    act_count,   \* store -> BaseModelStore._act_count
    active,      \* thread -> _store_state.active, the thread's activation stack
    running,     \* store -> number of init() calls minus number of shutdown() calls
    mode,        \* thread -> _store_state.mode ("unset" while the attribute is missing)
    scopes,      \* thread -> the `old` values saved by the open sharing_mode() scopes
    handles,     \* handle id -> the attributes of a PersistedModel instance
    files,       \* the paths of the temp files that exist
    segs,        \* the names of the shared-memory segments that exist
    unlinks,     \* the deletions done: which handle removed which file or segment
    shm,         \* whether multiprocessing.shared_memory could be imported
    environ,     \* the value of LK_TEMP_DIR in os.environ (None when unset)
    wrappers,    \* wrapper id -> the attributes of a SharedObject instance
    extrefs,     \* object -> references to it held outside the wrappers
    frames,      \* thread -> the __enter__ or __exit__ in progress on it, step by step
    last         \* what the last call did

vars == <<act_count, active, running, mode, scopes, handles, files, segs,
          unlinks, shm, environ, wrappers, extrefs, frames, last>>

storeVars == <<act_count, active, running, frames>>
modeVars == <<mode, scopes>>
handleVars == <<handles, files, segs, unlinks, shm, environ>>
wrapVars == <<wrappers, extrefs>>

(***************************************************************************)
(* Bounds of the model.                                                    *)
(***************************************************************************)
MaxDepth == 2       \* longest activation stack of a thread
MaxUnder == 1       \* how far failed exits may drive an activation count below zero
MaxScopes == 3      \* deepest nesting of sharing_mode() scopes on a thread
MaxHandles == 3     \* PersistedModel instances (originals and transmitted copies)
MaxWrappers == 2    \* SharedObject instances
MaxRefs == 2        \* references to one object held outside the wrappers
MaxFails == 2       \* persist calls that fail after creating a file or segment

Threads == {1, 2}
Stores == {"noop", "base"}      \* a NoopModelStore and another BaseModelStore
Objects == {"objA", "objB"}

None == "None"

\* The record every call leaves in `last`.
Call(op, t, s) ==
    [op |-> op, t |-> t, s |-> s, arg |-> None, err |-> "none", calls |-> <<>>,
     ret |-> None, warn |-> FALSE, views |-> <<>>, dump |-> None]

Last(seq) == seq[Len(seq)]
Front(seq) == SubSeq(seq, 1, Len(seq) - 1)

\* How many times x occurs in seq.
RECURSIVE Count(_, _)
Count(seq, x) ==
    IF seq = <<>> THEN 0
    ELSE (IF seq[1] = x THEN 1 ELSE 0) + Count(Tail(seq), x)

(***************************************************************************)
(* BaseModelStore: activation (__enter__ / __exit__) and pickling.         *)
(***************************************************************************)

\* __enter__, line 436: init() runs when the count is zero.
NeedsInitAlways(c) == TRUE
NeedsInit(c) == c = 0

\* __exit__, line 444: shutdown() runs when the decremented count is zero.
NeedsShutdownBelowOne(c) == c <= 0
NeedsShutdown(c) == c = 0

\* __exit__, line 446: `assert _active_stores()[-1] is self`; indexing an empty
\* list raises IndexError before the comparison.
ExitCheckNone(stack, s) == "none"
ExitCheck(stack, s) ==
    IF stack = <<>> THEN "IndexError"
    ELSE IF Last(stack) # s THEN "AssertionError"
    ELSE "none"

\* __exit__, line 447: pop the top of the stack.
PopBottom(stack) == Tail(stack)
Pop(stack) == Front(stack)

\* BaseModelStore.init / shutdown: the bodies are empty; the model counts the calls.
StoreInit(s) == running' = [running EXCEPT ![s] = @ + 1]
StoreShutdown(s) == running' = [running EXCEPT ![s] = @ - 1]

\* BaseModelStore.__enter__
StoreEnter(t, s) ==
    /\ Len(active[t]) < MaxDepth
    /\ IF NeedsInit(act_count[s]) THEN StoreInit(s) ELSE UNCHANGED running
    /\ act_count' = [act_count EXCEPT ![s] = @ + 1]
    /\ active' = [active EXCEPT ![t] = Append(@, s)]
    /\ last' = [Call("enter", t, s) EXCEPT
                  !.calls = IF NeedsInit(act_count[s]) THEN <<"init">> ELSE <<>>,
                  !.ret = s]
    /\ UNCHANGED <<frames, modeVars, handleVars, wrapVars>>

\* BaseModelStore.__exit__: the count is decremented and shutdown() run before
\* the top of the stack is checked, so a failed exit keeps both effects.
StoreExit(t, s) ==
    /\ act_count[s] > -MaxUnder
    /\ LET c == act_count[s] - 1
           err == ExitCheck(active[t], s)
       IN /\ act_count' = [act_count EXCEPT ![s] = c]
          /\ IF NeedsShutdown(c) THEN StoreShutdown(s) ELSE UNCHANGED running
          /\ active' = IF err = "none" THEN [active EXCEPT ![t] = Pop(@)] ELSE active
          /\ last' = [Call("exit", t, s) EXCEPT
                        !.calls = IF NeedsShutdown(c) THEN <<"shutdown">> ELSE <<>>,
                        !.err = err]
    /\ UNCHANGED <<frames, modeVars, handleVars, wrapVars>>

\* BaseModelStore.__getstate__: what pickling a store raises.
GetstateQuiet(s) == IF act_count[s] = 0 THEN "none" ELSE "RuntimeError"
StoreGetstate(s) == "RuntimeError"

\* pickle.dumps(store): the pickler calls __getstate__.
StorePickle(t, s) ==
    /\ last' = [Call("pickle", t, s) EXCEPT !.err = StoreGetstate(s)]
    /\ UNCHANGED <<storeVars, modeVars, handleVars, wrapVars>>

(***************************************************************************)
(* __enter__ and __exit__ step by step.  The methods take no lock and      *)
(* _act_count is an attribute of the store, shared by the threads, so the  *)
(* steps of two calls on one store interleave: the test of the count, the  *)
(* init() call, the read and the write of `self._act_count = ... + 1`, the *)
(* push; and for __exit__ the read and the write of the decrement, the     *)
(* test, the shutdown() call, the assertion and the pop.  A frame holds    *)
(* where the call stands (pc), its store, and the count it has read (c).   *)
(***************************************************************************)
Idle == [pc |-> "idle", s |-> None, c |-> 0]

At(t, pc) == frames[t].pc = pc

Goto(t, pc) == frames' = [frames EXCEPT ![t].pc = pc]

Step(op, t) == last' = Call(op, t, frames[t].s)

\* A thread calls store.__enter__(): nothing has run yet.
EnterCall(t, s) ==
    /\ At(t, "idle")
    /\ Len(active[t]) < MaxDepth
    /\ act_count[s] < 2 * MaxDepth /\ act_count[s] > -MaxUnder
    /\ running[s] <= MaxDepth
    /\ frames' = [frames EXCEPT ![t] = [pc |-> "enter_test", s |-> s, c |-> 0]]
    /\ last' = Call("enter_call", t, s)
    /\ UNCHANGED <<act_count, active, running, modeVars, handleVars, wrapVars>>

\* line 436: if self._act_count == 0
EnterTest(t) ==
    /\ At(t, "enter_test")
    /\ Goto(t, IF NeedsInit(act_count[frames[t].s]) THEN "enter_init" ELSE "enter_load")
    /\ Step("enter_test", t)
    /\ UNCHANGED <<act_count, active, running, modeVars, handleVars, wrapVars>>

\* line 437: self.init()
EnterInit(t) ==
    /\ At(t, "enter_init")
    /\ StoreInit(frames[t].s)
    /\ Goto(t, "enter_load")
    /\ last' = [Call("enter_init", t, frames[t].s) EXCEPT !.calls = <<"init">>]
    /\ UNCHANGED <<act_count, active, modeVars, handleVars, wrapVars>>

\* line 438, right-hand side: the count is read
EnterLoad(t) ==
    /\ At(t, "enter_load")
    /\ frames' = [frames EXCEPT ![t].pc = "enter_store",
                                ![t].c = act_count[frames[t].s]]
    /\ Step("enter_load", t)
    /\ UNCHANGED <<act_count, active, running, modeVars, handleVars, wrapVars>>

\* line 438, assignment: the count read, plus one, is written
EnterStore(t) ==
    /\ At(t, "enter_store")
    /\ act_count' = [act_count EXCEPT ![frames[t].s] = frames[t].c + 1]
    /\ Goto(t, "enter_push")
    /\ Step("enter_store", t)
    /\ UNCHANGED <<active, running, modeVars, handleVars, wrapVars>>

\* lines 439-440: the store is appended to the thread's stack; return
EnterPush(t) ==
    /\ At(t, "enter_push")
    /\ active' = [active EXCEPT ![t] = Append(@, frames[t].s)]
    /\ frames' = [frames EXCEPT ![t] = Idle]
    /\ last' = [Call("enter_push", t, frames[t].s) EXCEPT !.ret = frames[t].s]
    /\ UNCHANGED <<act_count, running, modeVars, handleVars, wrapVars>>

\* A thread leaves the with-block of the store on top of its stack, calling
\* store.__exit__().
ExitCall(t) ==
    /\ At(t, "idle")
    /\ active[t] # <<>>
    /\ act_count[Last(active[t])] > -MaxUnder
    /\ running[Last(active[t])] >= -MaxUnder
    /\ frames' = [frames EXCEPT ![t] = [pc |-> "exit_load", s |-> Last(active[t]),
                                        c |-> 0]]
    /\ last' = Call("exit_call", t, Last(active[t]))
    /\ UNCHANGED <<act_count, active, running, modeVars, handleVars, wrapVars>>

\* line 443, right-hand side
ExitLoad(t) ==
    /\ At(t, "exit_load")
    /\ frames' = [frames EXCEPT ![t].pc = "exit_store",
                                ![t].c = act_count[frames[t].s]]
    /\ Step("exit_load", t)
    /\ UNCHANGED <<act_count, active, running, modeVars, handleVars, wrapVars>>

\* line 443, assignment
ExitStore(t) ==
    /\ At(t, "exit_store")
    /\ act_count' = [act_count EXCEPT ![frames[t].s] = frames[t].c - 1]
    /\ Goto(t, "exit_test")
    /\ Step("exit_store", t)
    /\ UNCHANGED <<active, running, modeVars, handleVars, wrapVars>>

\* line 444: if self._act_count == 0
ExitTest(t) ==
    /\ At(t, "exit_test")
    /\ Goto(t, IF NeedsShutdown(act_count[frames[t].s]) THEN "exit_shutdown"
               ELSE "exit_assert")
    /\ Step("exit_test", t)
    /\ UNCHANGED <<act_count, active, running, modeVars, handleVars, wrapVars>>

\* line 445: self.shutdown()
ExitShutdown(t) ==
    /\ At(t, "exit_shutdown")
    /\ StoreShutdown(frames[t].s)
    /\ Goto(t, "exit_assert")
    /\ last' = [Call("exit_shutdown", t, frames[t].s) EXCEPT !.calls = <<"shutdown">>]
    /\ UNCHANGED <<act_count, active, modeVars, handleVars, wrapVars>>

\* lines 446-448: the assertion on the top of the thread's stack, the pop,
\* return; a failed assertion ends the call with the stack as it is.
ExitAssertPop(t) ==
    /\ At(t, "exit_assert")
    /\ LET err == ExitCheck(active[t], frames[t].s)
       IN /\ active' = IF err = "none" THEN [active EXCEPT ![t] = Pop(@)] ELSE active
          /\ last' = [Call("exit_pop", t, frames[t].s) EXCEPT !.err = err]
    /\ frames' = [frames EXCEPT ![t] = Idle]
    /\ UNCHANGED <<act_count, running, modeVars, handleVars, wrapVars>>

(***************************************************************************)
(* get_store.  SHMModelStore and FileModelStore are imported from modules  *)
(* of the package (lines 474-475); of them the function reads the class    *)
(* attribute SHMModelStore.ENABLED and calls the constructors.  A result   *)
(* is [new, store]: a store of the thread's stack, or the class of the     *)
(* store just constructed.                                                 *)
(***************************************************************************)

\* get_store, lines 279-287: the priority list.
GetStoreNoopFirst(stack, reuse, in_process, enabled) ==
    IF in_process THEN [new |-> TRUE, store |-> "NoopModelStore"]
    ELSE IF reuse /\ stack # <<>> THEN [new |-> FALSE, store |-> Last(stack)]
    ELSE IF enabled THEN [new |-> TRUE, store |-> "SHMModelStore"]
    ELSE [new |-> TRUE, store |-> "FileModelStore"]
GetStoreResult(stack, reuse, in_process, enabled) ==
    IF reuse /\ stack # <<>> THEN [new |-> FALSE, store |-> Last(stack)]
    ELSE IF in_process THEN [new |-> TRUE, store |-> "NoopModelStore"]
    ELSE IF enabled THEN [new |-> TRUE, store |-> "SHMModelStore"]
    ELSE [new |-> TRUE, store |-> "FileModelStore"]

\* get_store(reuse, in_process=...) on thread t, SHMModelStore.ENABLED being
\* `enabled`.  A store that is constructed is not entered.
GetStore(t, reuse, in_process, enabled) ==
    /\ last' = [Call("get_store", t, None) EXCEPT
                  !.arg = [reuse |-> reuse, in_process |-> in_process,
                           enabled |-> enabled],
                  !.ret = GetStoreResult(active[t], reuse, in_process, enabled)]
    /\ UNCHANGED <<storeVars, modeVars, handleVars, wrapVars>>

(***************************************************************************)
(* NoopModelStore.                                                         *)
(***************************************************************************)
NoopPutModelNone(model) == None
NoopPutModel(model) == model

NoopClientNone(s) == None
NoopClient(s) == s

\* SharedObject.__init__ over the class attributes _rc = None, _exiting = False.
\* rc = 0 stands for None; `held` is whether the instance has an `object` attribute.
SharedObjectInitEmpty(obj) == [held |-> FALSE, object |-> None, rc |-> 0]
SharedObjectInit(obj) == [held |-> TRUE, object |-> obj, rc |-> 0]

NoopGetModel(key) == SharedObjectInit(key)

\* store.put_model(model)
StorePutModel(t, model) ==
    /\ last' = [Call("put_model", t, "noop") EXCEPT
                  !.arg = model, !.ret = NoopPutModel(model)]
    /\ UNCHANGED <<storeVars, modeVars, handleVars, wrapVars>>

\* store.get_model(store.put_model(model)) on the no-op store: the wrapped object
StoreGetPut(t, model) ==
    /\ LET w == NoopGetModel(NoopPutModel(model))
       IN last' = [Call("get_put", t, "noop") EXCEPT
                     !.arg = model,
                     !.ret = IF w.held THEN w.object ELSE None]
    /\ UNCHANGED <<storeVars, modeVars, handleVars, wrapVars>>

\* BaseModelStore.put_serialized, lines 412-416, for an artifact that holds
\* `model` in the format the flag names.  With the flag set the body reads the
\* name `bpk`, which the module never binds (line 20 imports `binpickle`, and
\* the parameter shadows it): NameError, before put_model is called.  The
\* branch has no return statement either.
PutSerializedResult(model, binpickle) ==
    IF binpickle
    THEN [err |-> "NameError", calls |-> <<>>, ret |-> None]
    ELSE [err |-> "none", calls |-> <<"open", "pickle.load", "put_model">>,
          ret |-> NoopPutModel(model)]

\* store.put_serialized(path, binpickle) on the no-op store
StorePutSerialized(t, model, binpickle) ==
    /\ LET r == PutSerializedResult(model, binpickle)
       IN last' = [Call("put_serialized", t, "noop") EXCEPT
                     !.arg = [model |-> model, binpickle |-> binpickle],
                     !.err = r.err, !.calls = r.calls, !.ret = r.ret]
    /\ UNCHANGED <<storeVars, modeVars, handleVars, wrapVars>>

\* store.client()
StoreClient(t) ==
    /\ last' = [Call("client", t, "noop") EXCEPT !.ret = NoopClient("noop")]
    /\ UNCHANGED <<storeVars, modeVars, handleVars, wrapVars>>

(***************************************************************************)
(* The sharing-mode flag: _save_mode, sharing_mode, in_share_context.      *)
(***************************************************************************)

\* _save_mode(): getattr(_store_state, 'mode', 'save') on the calling thread.
SaveMode(t) == IF mode[t] = "unset" THEN "save" ELSE mode[t]

\* in_share_context()
InShareContext(t) == SaveMode(t) = "share"

\* sharing_mode(), line 48: the finally clause puts back the value saved on entry.
RestoreSave(old) == "save"
Restore(old) == old

\* sharing_mode() up to its yield: save the old mode, set 'share'.
ModeEnter(t) ==
    /\ Len(scopes[t]) < MaxScopes
    /\ scopes' = [scopes EXCEPT ![t] = Append(@, SaveMode(t))]
    /\ mode' = [mode EXCEPT ![t] = "share"]
    /\ last' = Call("share_enter", t, None)
    /\ UNCHANGED <<storeVars, handleVars, wrapVars>>

\* Leaving the innermost scope of the thread, by the end of the with-block or by
\* an exception raised in it (which goes on to the caller): the finally clause runs.
ModeExit(t, raised) ==
    /\ scopes[t] # <<>>
    /\ mode' = [mode EXCEPT ![t] = Restore(Last(scopes[t]))]
    /\ scopes' = [scopes EXCEPT ![t] = Front(@)]
    /\ last' = [Call("share_exit", t, None) EXCEPT
                  !.err = IF raised THEN "Exception" ELSE "none"]
    /\ UNCHANGED <<storeVars, handleVars, wrapVars>>

\* A call of in_share_context() on thread t.
ModeQuery(t) ==
    /\ last' = [Call("in_share_context", t, None) EXCEPT !.ret = InShareContext(t)]
    /\ UNCHANGED <<storeVars, modeVars, handleVars, wrapVars>>

(***************************************************************************)
(* Persisted models: BPKPersisted and SHMPersisted.                        *)
(*                                                                         *)
(* A file is named [dir, id, 0] and a segment ["shm", id, i], id being the *)
(* handle whose creation made it (mkstemp and SharedMemory(create=True)    *)
(* return fresh names).  `files` maps the existing paths to the object     *)
(* written there and `segs` the existing segment names to their size.      *)
(* A handle record holds the instance's attributes and one note that is no *)
(* attribute: copy_of, the original a transmitted copy came from (0 for an *)
(* original).  `open` tells which of the SharedMemory objects in buffers    *)
(* (by position) are open, and `stray` names the segments of the objects   *)
(* the instance created or opened, let go of, and that are still open.     *)
(* `got` notes that a get() has returned on the instance since it was made *)
(* or last closed.                                                         *)
(***************************************************************************)
Handles == 1..MaxHandles
SysTmp == "systmp"          \* where mkstemp(dir=None) puts the file
NoPath == [dir |-> None, id |-> 0, i |-> 0]

\* The out-of-band buffers (their byte lengths) pickling the object reports.
BufSizes(model) == IF model = "objA" THEN <<4>> ELSE <<2, 6>>

\* What deserializing the data of a persisted object yields.  "objNone" is an
\* object that reports buffers when pickled and is rebuilt as None.
Loaded(data) == IF data = "objNone" THEN None ELSE data

FreeHandle ==
    [kind |-> "free", copy_of |-> 0, is_owner |-> FALSE, path |-> NoPath,
     bpk_file |-> FALSE, model |-> None, pickle_data |-> None,
     buffer_specs |-> <<>>, buffers |-> <<>>, open |-> {}, stray |-> {},
     got |-> FALSE]

IsOriginal(h) == handles[h].kind # "free" /\ handles[h].copy_of = 0
IsCopy(h) == handles[h].kind # "free" /\ handles[h].copy_of # 0

\* The lowest unused handle id (0 when there is none).
FreeId == IF \E h \in Handles : handles[h].kind = "free"
          THEN CHOOSE h \in Handles :
                  /\ handles[h].kind = "free"
                  /\ \A g \in Handles : handles[g].kind = "free" => h <= g
          ELSE 0

\* BPKPersisted.__init__
BPKInit(path) ==
    [FreeHandle EXCEPT !.kind = "bpk", !.path = path, !.is_owner = TRUE]

\* SHMPersisted.__init__
SHMInit(data, buf_specs, buffers) ==
    [FreeHandle EXCEPT !.kind = "shm", !.pickle_data = data,
                       !.buffer_specs = buf_specs, !.buffers = buffers,
                       !.open = 1..Len(buffers), !.is_owner = TRUE]

\* sharing_mode(), line 44: the mode while the body of the with-block runs.
InScopeOld(old) == old
InScope(old) == "share"

\* What _save_mode() returns while the dump of a persist call on thread t runs.
DumpMode(t) == InScope(SaveMode(t))

\* sharing_mode() around the dump: entered and left within the call.
DumpInSharingMode(t) == mode' = [mode EXCEPT ![t] = Restore(SaveMode(t))]

\* persist_binpickle(model, dir): the new handle and the file it wrote.
BinpickleResult(h, model, dir) ==
    LET path == [dir |-> IF dir = None THEN SysTmp ELSE dir, id |-> h, i |-> 0]
    IN [handle |-> BPKInit(path), path |-> path]

\* persist_shm(model): one segment per buffer, named in the order reported.
\* The i of a name is the position of the buffer the segment was created for.
ShmSpecsSwapped(h, model) ==
    [i \in 1..Len(BufSizes(model)) |->
        <<[dir |-> "shm", id |-> h, i |-> i],
          BufSizes(model)[Len(BufSizes(model)) + 1 - i]>>]
ShmSpecs(h, model) ==
    [i \in 1..Len(BufSizes(model)) |->
        <<[dir |-> "shm", id |-> h, i |-> i], BufSizes(model)[i]>>]
ShmNames(specs) == [i \in 1..Len(specs) |-> specs[i][1]]
ShmResult(h, model) ==
    SHMInit(model, ShmSpecs(h, model), ShmNames(ShmSpecs(h, model)))

\* The segments persist_shm creates for the descriptors: name -> size.
SegsOf(specs) ==
    [n \in {specs[i][1] : i \in 1..Len(specs)} |->
        specs[CHOOSE i \in 1..Len(specs) : specs[i][1] = n][2]]

\* persist_binpickle(model, dir), called by `op`
DoPersistBinpickle(op, t, model, dir, arg) ==
    LET h == FreeId
        r == BinpickleResult(h, model, dir)
    IN /\ h # 0
       /\ handles' = [handles EXCEPT ![h] = r.handle]
       /\ files' = (r.path :> model) @@ files
       /\ DumpInSharingMode(t)
       /\ last' = [Call(op, t, h) EXCEPT
                     !.arg = arg, !.ret = "bpk", !.dump = DumpMode(t)]
       /\ UNCHANGED <<segs, unlinks, shm, environ, scopes, storeVars, wrapVars>>

\* persist_shm(model), called by `op`
DoPersistShm(op, t, model, arg) ==
    IF ~shm
    THEN /\ last' = [Call(op, t, 0) EXCEPT !.arg = arg, !.err = "ImportError"]
         /\ UNCHANGED <<handleVars, modeVars, storeVars, wrapVars>>
    ELSE LET h == FreeId
             r == ShmResult(h, model)
         IN /\ h # 0
            /\ handles' = [handles EXCEPT ![h] = r]
            /\ segs' = SegsOf(r.buffer_specs) @@ segs
            /\ DumpInSharingMode(t)
            /\ last' = [Call(op, t, h) EXCEPT
                          !.arg = arg, !.ret = "shm", !.dump = DumpMode(t)]
            /\ UNCHANGED <<files, unlinks, shm, environ, scopes, storeVars, wrapVars>>

\* persist, lines 110-116: the strategy chosen for the value of LK_TEMP_DIR.
StrategyShmFirst(lk_tmp) ==
    IF shm THEN "shm" ELSE IF lk_tmp # None THEN "bpk_lk" ELSE "bpk_default"
Strategy(lk_tmp) ==
    IF lk_tmp # None THEN "bpk_lk"
    ELSE IF shm THEN "shm"
    ELSE "bpk_default"

\* persist(model).  The function takes the model alone: a call that also passes
\* a directory raises TypeError before the body runs.
Persist(t, model, dir) ==
    LET env == environ
        arg == [env |-> env, dir |-> dir]
    IN IF dir # None
       THEN /\ last' = [Call("persist", t, 0) EXCEPT
                          !.arg = arg, !.err = "TypeError"]
            /\ UNCHANGED <<handleVars, modeVars, storeVars, wrapVars>>
       ELSE CASE Strategy(env) = "bpk_lk" ->
                    DoPersistBinpickle("persist", t, model, env, arg)
              [] Strategy(env) = "shm" ->
                    DoPersistShm("persist", t, model, arg)
              [] OTHER ->
                    DoPersistBinpickle("persist", t, model, None, arg)

\* The files and segments no instance names: mkstemp and SharedMemory(create=
\* True) return fresh names, and a call that fails returns no instance, so what
\* it created is named by the number of the failure, below zero.
Leftovers == {n \in DOMAIN files \cup DOMAIN segs : n.id < 0}
LeftoverId == -(1 + Cardinality({n.id : n \in Leftovers}))

\* The steps of a persist call that create or write a resource and can fail:
\* mkstemp (1) and bp.dump (2) in persist_binpickle, the SharedMemory(create=
\* True) of the k-th buffer in persist_shm.
CreatePoints(strategy, model) ==
    IF strategy = "shm" THEN 1..Len(BufSizes(model)) ELSE {1, 2}

\* persist_binpickle, lines 130-135, when step `fault` raises OSError: there
\* is no handler, so the file mkstemp made stays.
BinpickleFailure(dir, fault) ==
    IF fault = 1 THEN <<>>
    ELSE [dir |-> dir, id |-> LeftoverId, i |-> 0] :> "partial"

\* persist_shm, lines 193-203, when the allocation for buffer `fault` raises
\* OSError: there is no handler, so the blocks made for the buffers before it
\* stay.
ShmFailure(model, fault) ==
    [n \in {[dir |-> "shm", id |-> LeftoverId, i |-> i] : i \in 1..(fault - 1)} |->
        BufSizes(model)[n.i]]

\* persist(model) with step `fault` of the chosen strategy failing.
PersistFail(t, model, fault) ==
    LET st == Strategy(environ)
        dir == IF st = "bpk_lk" THEN environ ELSE SysTmp
    IN /\ fault \in CreatePoints(st, model)
       /\ Cardinality({n.id : n \in Leftovers}) < MaxFails
       /\ files' = IF st = "shm" THEN files ELSE BinpickleFailure(dir, fault) @@ files
       /\ segs' = IF st = "shm" THEN ShmFailure(model, fault) @@ segs ELSE segs
       /\ IF st # "shm" /\ fault = 1 THEN UNCHANGED mode ELSE DumpInSharingMode(t)
       /\ last' = [Call("persist", t, 0) EXCEPT
                     !.arg = [env |-> environ, dir |-> None, fault |-> fault],
                     !.dump = IF st # "shm" /\ fault = 1 THEN None ELSE DumpMode(t),
                     !.err = "OSError"]
       /\ UNCHANGED <<handles, unlinks, shm, environ, scopes, storeVars, wrapVars>>

\* A function without the key k.
Without(f, k) == [x \in DOMAIN f \ {k} |-> f[x]]

\* The outcome of a call on a handle: the handle afterwards, the files and
\* segments afterwards, the names removed, the exception, the system calls
\* issued, the value returned, whether a warning was logged.
Outcome(hd) ==
    [handle |-> hd, files |-> files, segs |-> segs, removed |-> {},
     err |-> "none", calls |-> <<>>, ret |-> None, warn |-> FALSE, views |-> <<>>]

\* BPKPersisted.get
BPKGet(hd) ==
    IF ~hd.bpk_file
    THEN IF hd.path \in DOMAIN files
         THEN [Outcome([hd EXCEPT !.bpk_file = TRUE, !.got = TRUE,
                                  !.model = Loaded(files[hd.path])])
                 EXCEPT !.calls = <<"open">>, !.ret = Loaded(files[hd.path])]
         ELSE [Outcome(hd) EXCEPT !.calls = <<"open">>, !.err = "FileNotFoundError"]
    ELSE [Outcome([hd EXCEPT !.got = TRUE]) EXCEPT !.ret = hd.model]

\* SHMPersisted.get, line 232: the list self.buffers held is replaced.  Nothing
\* else refers to it, so its SharedMemory objects are deallocated there and
\* then, and SharedMemory.__del__ closes each.
FinalizedNone(bufs) == {}
Finalized(bufs) == {bufs[i] : i \in 1..Len(bufs)}

\* SHMPersisted.get, lines 225-230: the views handed to pickle.loads, each the
\* first `bs` bytes of the segment named `bn`, in the order of the descriptors.
ShmViews(specs) == [i \in 1..Len(specs) |-> <<specs[i][1], specs[i][2]>>]

\* SHMPersisted.get: the segments are opened by name, in the order of the
\* descriptors; a missing one raises before anything is assigned.
SHMGet(hd) ==
    IF hd.model = None
    THEN LET names == ShmNames(hd.buffer_specs)
             missing == {i \in 1..Len(names) : names[i] \notin DOMAIN segs}
         IN IF missing = {}
            THEN [Outcome([hd EXCEPT !.buffers = names, !.got = TRUE,
                                     !.model = Loaded(hd.pickle_data),
                                     !.open = 1..Len(names),
                                     !.stray = (@ \cup {hd.buffers[i] : i \in hd.open})
                                                  \ Finalized(hd.buffers)])
                    EXCEPT !.calls = [i \in 1..Len(names) |-> "open"],
                           !.views = ShmViews(hd.buffer_specs),
                           !.ret = Loaded(hd.pickle_data)]
            ELSE LET k == CHOOSE i \in missing : \A j \in missing : i <= j
                 IN [Outcome(hd) EXCEPT !.calls = [i \in 1..k |-> "open"],
                                        !.err = "FileNotFoundError"]
    ELSE [Outcome(hd) EXCEPT !.ret = hd.model]

\* close, lines 165 and 244: self.is_owner = False
KeepOwner(hd) == hd
ClearOwner(hd) == [hd EXCEPT !.is_owner = FALSE]

\* BPKPersisted.close, line 161: the file is removed by the owner, when asked.
MayUnlinkAnyone(hd, unlink) == unlink
MayUnlink(hd, unlink) == hd.is_owner /\ unlink

\* SHMPersisted.close, line 239: only the owner tears the segments down.
MayTeardownAnyone(hd) == TRUE
MayTeardown(hd) == hd.is_owner

\* BPKPersisted.close(unlink); fault = 1 makes _bpk_file.close() raise IOError
\* and fault = 2 makes path.unlink() raise OSError.
BPKClose(hd, unlink, fault) ==
    LET h1 == IF hd.bpk_file
              THEN [hd EXCEPT !.model = None, !.bpk_file = FALSE, !.got = FALSE]
              ELSE hd
        c1 == IF hd.bpk_file THEN <<"close">> ELSE <<>>
        w1 == hd.bpk_file /\ fault = 1          \* caught and logged
    IN IF MayUnlink(h1, unlink)
       THEN IF fault = 2 \/ h1.path \notin DOMAIN files
            THEN [Outcome(h1) EXCEPT
                    !.calls = Append(c1, "unlink"), !.warn = w1,
                    !.err = IF fault = 2 THEN "OSError" ELSE "FileNotFoundError"]
            ELSE [Outcome(ClearOwner(h1)) EXCEPT
                    !.calls = Append(c1, "unlink"), !.warn = w1,
                    !.files = Without(files, h1.path), !.removed = {h1.path}]
       ELSE [Outcome(h1) EXCEPT !.calls = c1, !.warn = w1]

\* The loop of SHMPersisted.close over self.buffers: buf.close(), buf.unlink();
\* `closed` counts the objects whose close() returned.
\* k system calls have been issued; call number `fault` raises OSError, and
\* unlinking a segment that is gone raises FileNotFoundError.  Nothing catches
\* either: the loop stops there.
RECURSIVE ShmTeardown(_, _, _, _)
ShmTeardown(bufs, sg, fault, k) ==
    IF bufs = <<>>
    THEN [segs |-> sg, err |-> "none", calls |-> <<>>, removed |-> {}, closed |-> 0]
    ELSE IF fault = k + 1
    THEN [segs |-> sg, err |-> "OSError", calls |-> <<"close">>, removed |-> {},
          closed |-> 0]
    ELSE IF fault = k + 2 \/ bufs[1] \notin DOMAIN sg
    THEN [segs |-> sg, calls |-> <<"close", "unlink">>, removed |-> {}, closed |-> 1,
          err |-> IF fault = k + 2 THEN "OSError" ELSE "FileNotFoundError"]
    ELSE LET rest == ShmTeardown(Tail(bufs), Without(sg, bufs[1]), fault, k + 2)
         IN [rest EXCEPT !.calls = <<"close", "unlink">> \o @,
                         !.removed = @ \cup {bufs[1]},
                         !.closed = @ + 1]

\* SHMPersisted.close(unlink): the argument is not read.  After `del
\* self.buffers` the attribute reads as the class attribute, the empty list.
SHMClose(hd, unlink, fault) ==
    LET h1 == [hd EXCEPT !.model = None, !.got = FALSE]
    IN IF MayTeardown(h1)
       THEN LET r == ShmTeardown(h1.buffers, segs, fault, 0)
            IN IF r.err = "none"
               THEN [Outcome(ClearOwner([h1 EXCEPT !.buffers = <<>>,
                                                   !.open = {}])) EXCEPT
                       !.segs = r.segs, !.calls = r.calls, !.removed = r.removed]
               ELSE [Outcome([h1 EXCEPT !.open = @ \ (1..r.closed)]) EXCEPT
                       !.segs = r.segs, !.calls = r.calls, !.removed = r.removed,
                       !.err = r.err]
       ELSE Outcome(h1)

\* __getstate__, lines 169 and 250: the copy does not own the resources.
GetstateOwner(owner) == owner
GetstateOwnerFlag(owner) == FALSE

\* BPKPersisted.__getstate__: the whole __dict__, with is_owner replaced.
BPKGetstate(hd) ==
    [path |-> hd.path, is_owner |-> GetstateOwnerFlag(hd.is_owner),
     bpk_file |-> hd.bpk_file, model |-> hd.model]

\* SHMPersisted.__getstate__
SHMGetstate(hd) ==
    [pickle_data |-> hd.pickle_data, buffer_specs |-> hd.buffer_specs,
     is_owner |-> GetstateOwnerFlag(hd.is_owner)]

\* Pickling the state: an open BinPickleFile (a file object and its memory
\* map) cannot be pickled.
PickleError(hd) ==
    IF hd.kind = "bpk" /\ BPKGetstate(hd).bpk_file THEN "TypeError" ELSE "none"

\* The instance unpickling makes of the state: the state becomes its __dict__,
\* over the class attributes (SHMPersisted.buffers = [], _model = None).
Unpickled(hd, from) ==
    IF hd.kind = "bpk"
    THEN LET st == BPKGetstate(hd)
         IN [FreeHandle EXCEPT !.kind = "bpk", !.copy_of = from,
                               !.path = st.path, !.is_owner = st.is_owner,
                               !.bpk_file = st.bpk_file, !.model = st.model]
    ELSE LET st == SHMGetstate(hd)
         IN [FreeHandle EXCEPT !.kind = "shm", !.copy_of = from,
                               !.pickle_data = st.pickle_data,
                               !.buffer_specs = st.buffer_specs,
                               !.is_owner = st.is_owner]

\* handle.get(); `arg` notes whether a get() had returned on the instance
\* before, with no close() since.
HandleGet(t, h) ==
    /\ handles[h].kind # "free"
    /\ LET r == IF handles[h].kind = "bpk" THEN BPKGet(handles[h])
                ELSE SHMGet(handles[h])
       IN /\ handles' = [handles EXCEPT ![h] = r.handle]
          /\ last' = [Call("get", t, h) EXCEPT
                        !.arg = handles[h].got, !.views = r.views,
                        !.err = r.err, !.calls = r.calls, !.ret = r.ret]
    /\ UNCHANGED <<files, segs, unlinks, shm, environ, modeVars, storeVars, wrapVars>>

\* The system calls of close() that can be made to fail for this handle.
FaultPoints(hd, unlink) ==
    IF hd.kind = "bpk"
    THEN (IF hd.bpk_file THEN {1} ELSE {}) \cup
         (IF hd.is_owner /\ unlink THEN {2} ELSE {})
    ELSE IF hd.is_owner THEN 1..(2 * Len(hd.buffers)) ELSE {}

\* handle.close(unlink), with system call number `fault` failing (0: none does)
HandleClose(t, h, unlink, fault) ==
    /\ handles[h].kind # "free"
    /\ fault # 0 => fault \in FaultPoints(handles[h], unlink)
    /\ LET r == IF handles[h].kind = "bpk" THEN BPKClose(handles[h], unlink, fault)
                ELSE SHMClose(handles[h], unlink, fault)
       IN /\ handles' = [handles EXCEPT ![h] = r.handle]
          /\ files' = r.files
          /\ segs' = r.segs
          /\ unlinks' = unlinks \cup {[res |-> n, by |-> h] : n \in r.removed}
          /\ last' = [Call("close", t, h) EXCEPT
                        !.arg = [unlink |-> unlink, fault |-> fault],
                        !.err = r.err, !.calls = r.calls, !.warn = r.warn]
    /\ UNCHANGED <<shm, environ, modeVars, storeVars, wrapVars>>

\* The state __getstate__ returns for the handle.
Getstate(hd) == IF hd.kind = "bpk" THEN BPKGetstate(hd) ELSE SHMGetstate(hd)

\* pickle.loads(pickle.dumps(handle)): the copy a worker receives; `ret` is
\* the state __getstate__ handed to the pickler.
HandleTransmit(t, h) ==
    /\ handles[h].kind # "free"
    /\ FreeId # 0
    /\ LET from == IF handles[h].copy_of = 0 THEN h ELSE handles[h].copy_of
       IN IF PickleError(handles[h]) # "none"
          THEN /\ last' = [Call("transmit", t, h) EXCEPT
                             !.err = PickleError(handles[h]),
                             !.ret = Getstate(handles[h])]
               /\ UNCHANGED handles
          ELSE /\ handles' = [handles EXCEPT ![FreeId] = Unpickled(handles[h], from)]
               /\ last' = [Call("transmit", t, h) EXCEPT
                             !.arg = FreeId, !.ret = Getstate(handles[h])]
    /\ UNCHANGED <<files, segs, unlinks, shm, environ, modeVars, storeVars, wrapVars>>

(***************************************************************************)
(* SharedObject.  A wrapper record holds the attributes (held: the         *)
(* instance has an `object` attribute; rc: _rc, 0 for None) and two notes  *)
(* that are no attributes: made (the slot is in use) and acq (the          *)
(* reference count of the object when get_model returned the wrapper).     *)
(***************************************************************************)
Wrappers == 1..MaxWrappers

FreeWrapper == [made |-> FALSE, acq |-> 0, held |-> FALSE, object |-> None, rc |-> 0]

FreeWrapperId ==
    IF \E w \in Wrappers : ~wrappers[w].made
    THEN CHOOSE w \in Wrappers :
            ~wrappers[w].made /\ \A v \in Wrappers : ~wrappers[v].made => w <= v
    ELSE 0

\* The wrappers whose `object` attribute is x.
Holders(ws, x) == {w \in Wrappers : ws[w].made /\ ws[w].held /\ ws[w].object = x}

\* sys.getrefcount(x): the references of the callers, those of the wrappers,
\* and the one of the call's own argument.
GetRefcount(ws, x) == extrefs[x] + Cardinality(Holders(ws, x)) + 1

\* release, line 357: `self._rc and rc > self._rc`
LeakedAtLeast(base, rc) == base # 0 /\ rc >= base
Leaked(base, rc) == base # 0 /\ rc > base

\* SharedObject.__enter__, line 367: the baseline is the count at entry.
Baseline(ws, x) == GetRefcount(ws, x)

\* client.get_model(key) on the no-op store
WrapGetModel(t, key) ==
    /\ FreeWrapperId # 0
    /\ LET w == FreeWrapperId
           made == [wrappers EXCEPT ![w] =
                      [made |-> TRUE, acq |-> 0] @@ NoopGetModel(key)]
       IN /\ wrappers' = [made EXCEPT ![w].acq = GetRefcount(made, key)]
          /\ last' = [Call("get_model", t, w) EXCEPT !.arg = key]
    /\ UNCHANGED <<extrefs, storeVars, modeVars, handleVars>>

\* A caller keeps one more reference to x, or lets one go.
WrapRetain(t, x) ==
    /\ extrefs[x] < MaxRefs
    /\ extrefs' = [extrefs EXCEPT ![x] = @ + 1]
    /\ last' = [Call("retain", t, None) EXCEPT !.arg = x]
    /\ UNCHANGED <<wrappers, storeVars, modeVars, handleVars>>

WrapDrop(t, x) ==
    /\ extrefs[x] > 0
    /\ extrefs' = [extrefs EXCEPT ![x] = @ - 1]
    /\ last' = [Call("drop", t, None) EXCEPT !.arg = x]
    /\ UNCHANGED <<wrappers, storeVars, modeVars, handleVars>>

\* SharedObject.__enter__; reading a deleted `object` raises AttributeError.
WrapEnter(t, w) ==
    /\ wrappers[w].made
    /\ IF wrappers[w].held
       THEN /\ wrappers' = [wrappers EXCEPT ![w].rc =
                               Baseline(wrappers, wrappers[w].object)]
            /\ last' = [Call("wrap_enter", t, w) EXCEPT !.ret = wrappers[w].object]
       ELSE /\ last' = [Call("wrap_enter", t, w) EXCEPT !.err = "AttributeError"]
            /\ UNCHANGED wrappers
    /\ UNCHANGED <<extrefs, storeVars, modeVars, handleVars>>

\* The body of SharedObject.release; the warning carries the stack level.
DoRelease(op, t, w, level) ==
    /\ wrappers[w].made
    /\ IF wrappers[w].held
       THEN LET leak == Leaked(wrappers[w].rc,
                               GetRefcount(wrappers, wrappers[w].object))
            IN /\ wrappers' = [wrappers EXCEPT ![w].held = FALSE,
                                               ![w].object = None,
                                               ![w].acq = 0]
               /\ last' = [Call(op, t, w) EXCEPT
                             !.warn = leak,
                             !.calls = IF leak THEN <<level>> ELSE <<>>]
       ELSE /\ last' = [Call(op, t, w) EXCEPT !.err = "AttributeError"]
            /\ UNCHANGED wrappers
    /\ UNCHANGED <<extrefs, storeVars, modeVars, handleVars>>

\* SharedObject.release(), called directly: _exiting is the class attribute.
WrapRelease(t, w) == DoRelease("release", t, w, "stacklevel=2")

\* SharedObject.__exit__: release() with _exiting set, which is then deleted.
WrapExit(t, w) == DoRelease("wrap_exit", t, w, "stacklevel=3")

InitStores ==
    /\ act_count = [s \in Stores |-> 0]
    /\ active = [t \in Threads |-> <<>>]
    /\ running = [s \in Stores |-> 0]
    /\ frames = [t \in Threads |-> Idle]

InitModes ==
    /\ mode = [t \in Threads |-> "unset"]
    /\ scopes = [t \in Threads |-> <<>>]

InitHandles ==
    /\ handles = [h \in Handles |-> FreeHandle]
    /\ files = <<>>
    /\ segs = <<>>
    /\ unlinks = {}
    /\ shm \in BOOLEAN
    /\ environ \in {None, "lkdir"}

InitWrappers ==
    /\ wrappers = [w \in Wrappers |-> FreeWrapper]
    /\ extrefs = [o \in Objects |-> 0]

Init ==
    /\ InitStores /\ InitModes /\ InitHandles /\ InitWrappers
    /\ last = Call("start", 0, None)

NextStore ==
    \/ \E t \in Threads, s \in Stores : StoreEnter(t, s)
    \/ \E t \in Threads, s \in Stores : StoreExit(t, s)
    \/ \E t \in Threads, s \in Stores : StorePickle(t, s)
    \/ \E t \in Threads, m \in Objects : StorePutModel(t, m)
    \/ \E t \in Threads, m \in Objects : StoreGetPut(t, m)
    \/ \E t \in Threads : StoreClient(t)
    \/ \E t \in Threads, m \in Objects, binpickle \in BOOLEAN :
          StorePutSerialized(t, m, binpickle)

\* The start with shared memory importable and LK_TEMP_DIR unset.
InitPlain == Init /\ shm = TRUE /\ environ = None

\* The start with LK_TEMP_DIR unset, shared memory importable or not.
InitNoEnv == Init /\ environ = None

SpecStore == InitPlain /\ [][NextStore]_vars

NextMode ==
    \/ \E t \in Threads : ModeEnter(t)
    \/ \E t \in Threads, raised \in BOOLEAN : ModeExit(t, raised)
    \/ \E t \in Threads : ModeQuery(t)

SpecMode == InitPlain /\ [][NextMode]_vars

\* Activations and exits of the stores, with calls of get_store in between.
NextGetStore ==
    \/ \E t \in Threads, s \in Stores : StoreEnter(t, s)
    \/ \E t \in Threads, s \in Stores : StoreExit(t, s)
    \/ \E t \in Threads, reuse, in_process, enabled \in BOOLEAN :
          GetStore(t, reuse, in_process, enabled)

SpecGetStore == InitPlain /\ [][NextGetStore]_vars

\* Two threads entering and leaving one store, each in LIFO order on its own
\* stack, their calls interleaved step by step.
SharedStore == "base"

NextThreads ==
    \/ \E t \in Threads : EnterCall(t, SharedStore)
    \/ \E t \in Threads : EnterTest(t)
    \/ \E t \in Threads : EnterInit(t)
    \/ \E t \in Threads : EnterLoad(t)
    \/ \E t \in Threads : EnterStore(t)
    \/ \E t \in Threads : EnterPush(t)
    \/ \E t \in Threads : ExitCall(t)
    \/ \E t \in Threads : ExitLoad(t)
    \/ \E t \in Threads : ExitStore(t)
    \/ \E t \in Threads : ExitTest(t)
    \/ \E t \in Threads : ExitShutdown(t)
    \/ \E t \in Threads : ExitAssertPop(t)

SpecThreads == InitPlain /\ [][NextThreads]_vars

\* The persisted handles touch no thread-local state but the sharing mode set
\* and restored inside persist; their calls are made from the main thread.
MainThread == CHOOSE t \in Threads : \A u \in Threads : t <= u
PersistModels == {"objB"}

\* get(), close() and transmission of the handles persist() makes while
\* LK_TEMP_DIR is unset: shared-memory handles where shared memory is
\* available, file-backed handles where it is not.  The system calls of
\* close() are made to fail in the calls with unlink=True.
NextHandle ==
    \/ \E m \in PersistModels : Persist(MainThread, m, None)
    \/ \E h \in Handles : HandleGet(MainThread, h)
    \/ \E h \in Handles, unlink \in BOOLEAN :
          \E fault \in {0} \cup (IF unlink THEN FaultPoints(handles[h], unlink) ELSE {}) :
             HandleClose(MainThread, h, unlink, fault)
    \/ \E h \in Handles : HandleTransmit(MainThread, h)

SpecHandle == InitNoEnv /\ [][NextHandle]_vars

\* The dispatcher under every environment, called with and without a
\* directory argument, and the handles it makes used and closed.
NextPersist ==
    \/ \E m \in PersistModels, dir \in {"lkdir", None} :
          Persist(MainThread, m, dir)
    \/ \E h \in Handles : HandleGet(MainThread, h)
    \/ \E h \in Handles, unlink \in BOOLEAN :
          \E fault \in {0} \cup FaultPoints(handles[h], unlink) :
             HandleClose(MainThread, h, unlink, fault)

SpecPersist == Init /\ [][NextPersist]_vars

\* persist calls that succeed and that fail while creating their resources.
NextCreate ==
    \/ \E m \in PersistModels : Persist(MainThread, m, None)
    \/ \E m \in PersistModels, fault \in 1..2 : PersistFail(MainThread, m, fault)
    \/ \E h \in Handles, unlink \in BOOLEAN : HandleClose(MainThread, h, unlink, 0)

SpecCreate == Init /\ [][NextCreate]_vars

\* persist calls, succeeding and failing, inside and outside sharing_mode()
\* scopes of the two threads.
NextDump ==
    \/ \E t \in Threads : ModeEnter(t)
    \/ \E t \in Threads : ModeExit(t, FALSE)
    \/ \E t \in Threads, m \in PersistModels : Persist(t, m, None)
    \/ \E t \in Threads, m \in PersistModels, fault \in 1..2 : PersistFail(t, m, fault)

SpecDump == Init /\ [][NextDump]_vars

\* Handles of both types for an object rebuilt as itself and for one rebuilt
\* as None, read again and again.
CacheModels == {"objB", "objNone"}

NextCache ==
    \/ \E m \in CacheModels : Persist(MainThread, m, None)
    \/ \E h \in Handles : HandleGet(MainThread, h)
    \/ \E h \in Handles, unlink \in BOOLEAN : HandleClose(MainThread, h, unlink, 0)

SpecCache == InitNoEnv /\ [][NextCache]_vars

\* The wrappers the no-op store hands out, and the references of the callers.
SharedKeys == {"objA"}

NextShared ==
    \/ \E key \in SharedKeys : WrapGetModel(MainThread, key)
    \/ \E x \in SharedKeys : WrapRetain(MainThread, x)
    \/ \E x \in SharedKeys : WrapDrop(MainThread, x)
    \/ \E w \in Wrappers : WrapEnter(MainThread, w)
    \/ \E w \in Wrappers : WrapRelease(MainThread, w)
    \/ \E w \in Wrappers : WrapExit(MainThread, w)

SpecShared == InitPlain /\ [][NextShared]_vars

(***************************************************************************)
(* Properties of the stores.                                               *)
(***************************************************************************)

\* How many times store s stands on the activation stacks of all threads.
RECURSIVE OccIn(_, _)
OccIn(ts, s) ==
    IF ts = {} THEN 0
    ELSE LET t == CHOOSE x \in ts : TRUE
         IN Count(active[t], s) + OccIn(ts \ {t}, s)
Occ(s) == OccIn(Threads, s)

\* No exit of s has failed so far: every failed exit lowers the count of s and
\* leaves the stacks alone, and nothing makes up for it later.
Nested(s) == act_count[s] = Occ(s)

\* C1: as long as the enters and exits of a store are nested, init() has run
\* exactly once more than shutdown() while its activation count is >= 1 and
\* exactly as often while it is zero; an enter calls init() (once) exactly when
\* it takes the count from zero to one, an exit calls shutdown() (once) exactly
\* when it takes the count back to zero, and neither calls anything else.
ThmC1 ==
    \A s \in Stores :
        Nested(s) =>
            /\ act_count[s] >= 0
            /\ running[s] = IF act_count[s] >= 1 THEN 1 ELSE 0
            /\ (last.op = "enter" /\ last.s = s) =>
                   last.calls = IF act_count[s] = 1 THEN <<"init">> ELSE <<>>
            /\ (last.op = "exit" /\ last.s = s) =>
                   last.calls = IF act_count[s] = 0 THEN <<"shutdown">> ELSE <<>>

\* A nested exit that took the store back to zero and ran shutdown(), inside
\* the scope of another store.
WitC1 ==
    /\ last.op = "exit" /\ last.s = "noop" /\ last.err = "none"
    /\ last.calls = <<"shutdown">>
    /\ Nested("noop") /\ act_count["noop"] = 0 /\ running["noop"] = 0
    /\ active[last.t] = <<"base">>

\* C2: an enter appends the store to the calling thread's stack; an exit of s
\* succeeds exactly when s is the top of that stack, and then removes that top
\* entry; an exit whose top entry is another store raises AssertionError and
\* leaves every stack as it was; no call touches another thread's stack.
ThmC2 ==
    [][\A t \in Threads, s \in Stores :
          /\ (last'.op = "enter" /\ last'.t = t /\ last'.s = s) =>
                 active' = [active EXCEPT ![t] = Append(@, s)]
          /\ (last'.op = "exit" /\ last'.t = t /\ last'.s = s) =>
                 IF active[t] # <<>> /\ Last(active[t]) = s
                 THEN /\ last'.err = "none"
                      /\ active' = [active EXCEPT ![t] = Front(@)]
                 ELSE /\ last'.err # "none"
                      /\ active[t] # <<>> => last'.err = "AssertionError"
                      /\ active' = active]_vars

\* An exit out of order: the store is below another one, and both stay.
WitC2 ==
    /\ last.op = "exit" /\ last.s = "noop" /\ last.err = "AssertionError"
    /\ active[last.t] = <<"noop", "base">>

\* C8: pickling a store raises RuntimeError whatever its activation count is,
\* and changes no activation count and no activation stack.
ThmC8 ==
    [][last'.op = "pickle" =>
          /\ last'.err = "RuntimeError"
          /\ act_count' = act_count /\ active' = active /\ running' = running]_vars

\* The no-op store pickled while it is active.
WitC8 ==
    /\ last.op = "pickle" /\ last.s = "noop" /\ last.err = "RuntimeError"
    /\ act_count["noop"] >= 1 /\ Count(active[last.t], "noop") >= 1

\* C9: on the no-op store put_model returns its argument, get_model of that
\* key wraps the argument, client() returns the store, and none of them
\* changes an activation count or an activation stack.
ThmC9 ==
    [][/\ last'.op \in {"put_model", "get_put"} => last'.ret = last'.arg
       /\ last'.op = "client" => last'.ret = last'.s
       /\ last'.op \in {"put_model", "get_put", "client"} =>
             /\ last'.err = "none"
             /\ act_count' = act_count /\ active' = active]_vars

\* The wrapper of a stored object, fetched while the store is active.
WitC9 ==
    /\ last.op = "get_put" /\ last.arg = "objB" /\ last.ret = "objB"
    /\ act_count["noop"] >= 1

(***************************************************************************)
(* Properties of the sharing mode.                                         *)
(***************************************************************************)

\* C10: in_share_context() is true on a thread exactly when the thread is
\* inside at least one sharing_mode() scope, whatever the other thread does;
\* every scope has saved the mode that held when it was entered ('save' for
\* the outermost, 'share' for the nested ones), and that is what its exit, by
\* either path, puts back.
ThmC10 ==
    /\ \A t \in Threads :
          /\ InShareContext(t) <=> Len(scopes[t]) >= 1
          /\ \A i \in 1..Len(scopes[t]) :
                scopes[t][i] = IF i = 1 THEN "save" ELSE "share"
    /\ last.op = "in_share_context" => last.ret = (scopes[last.t] # <<>>)
    /\ last.op = "share_exit" =>
          SaveMode(last.t) = IF scopes[last.t] = <<>> THEN "save" ELSE "share"

\* A nested scope left by an exception while the outer scope is still open and
\* the other thread is in no scope: the thread is still in share mode.
WitC10 ==
    /\ last.op = "share_exit" /\ last.err = "Exception"
    /\ Len(scopes[last.t]) = 1 /\ InShareContext(last.t)
    /\ \E u \in Threads : u # last.t /\ scopes[u] = <<>> /\ ~InShareContext(u)

(***************************************************************************)
(* Properties of the persisted handles.                                    *)
(***************************************************************************)

\* The files and segments behind handle h.
Resources(h) ==
    IF handles[h].kind = "bpk" THEN {handles[h].path}
    ELSE {handles[h].buffer_specs[i][1] : i \in 1..Len(handles[h].buffer_specs)}
Existing == DOMAIN files \cup DOMAIN segs

\* The attributes that name the resources of a handle.
Identifiers(hd) == <<hd.kind, hd.path, hd.pickle_data, hd.buffer_specs>>

\* C3 (state part): every transmitted copy, and every copy of a copy, of either
\* type is not an owner, and names the resources of its original; whatever has
\* been called on the copies, a file or segment is gone only if the original
\* that created it removed it in its own close().
InvC3 ==
    /\ \A h \in Handles :
          IsCopy(h) =>
             /\ ~handles[h].is_owner
             /\ IsOriginal(handles[h].copy_of)
             /\ Identifiers(handles[h]) = Identifiers(handles[handles[h].copy_of])
    /\ \A h \in Handles :
          IsOriginal(h) =>
             \A r \in Resources(h) :
                r \in Existing \/ [res |-> r, by |-> h] \in unlinks
    /\ \A u \in unlinks : IsOriginal(u.by) /\ u.res.id = u.by

\* C3 (step part): transmitting a handle changes no existing handle (the
\* original keeps is_owner and its identifiers); a get() or close() on a copy
\* removes no file and no segment.
StepC3 ==
    /\ last'.op = "transmit" =>
          /\ \A h \in Handles : handles[h].kind # "free" => handles'[h] = handles[h]
          /\ last'.err = "none" =>
                /\ handles[last'.arg].kind = "free"
                /\ ~handles'[last'.arg].is_owner
                /\ Identifiers(handles'[last'.arg]) = Identifiers(handles[last'.s])
    /\ (last'.op \in {"get", "close"} /\ IsCopy(last'.s)) =>
          /\ files' = files /\ segs' = segs /\ unlinks' = unlinks

\* C3: serializing and deserializing a handle of either type yields a copy that
\* is no owner and leaves the original as it was; no sequence of get() and
\* close() on copies (and copies of copies) removes a file or a segment.
ThmC3 == []InvC3 /\ [][StepC3]_vars

\* A copy of a copy of a shared-memory handle has been materialized and closed
\* with unlink=True, and the segments of the original, still the owner, exist.
WitC3 ==
    \E o, c, cc \in Handles :
        /\ handles[o].kind = "shm" /\ IsOriginal(o) /\ handles[o].is_owner
        /\ IsCopy(c) /\ IsCopy(cc) /\ c # cc /\ handles[cc].copy_of = o
        /\ last.op = "close" /\ last.s = cc /\ last.arg.unlink
        /\ handles[cc].buffers # <<>>
        /\ Resources(o) # {} /\ Resources(o) \subseteq DOMAIN segs

\* A close() with unlink=True has just returned on handle h.
JustClosed(h) ==
    /\ last.op = "close" /\ last.s = h /\ last.err = "none" /\ last.arg.unlink

\* C4: when close() (unlink=True) has returned on a handle, in whatever state
\* get() calls had left it, the next close() of it raises nothing, issues no
\* system call (no second delete or unlink), and changes no handle, file or
\* segment.
ThmC4 ==
    [][\A h \in Handles :
          (JustClosed(h) /\ last'.op = "close" /\ last'.s = h) =>
             /\ last'.err = "none" /\ last'.calls = <<>> /\ ~last'.warn
             /\ handles' = handles
             /\ files' = files /\ segs' = segs /\ unlinks' = unlinks]_vars

\* The second close() of an original shared-memory handle whose first close()
\* unlinked its segments.
WitC4 ==
    \E h \in Handles :
        /\ IsOriginal(h) /\ handles[h].kind = "shm" /\ ~handles[h].is_owner
        /\ [res |-> handles[h].buffer_specs[1][1], by |-> h] \in unlinks
        /\ last.op = "close" /\ last.s = h /\ last.calls = <<>>

\* The strategy persist() was to choose for the inputs recorded in `last`.
Chosen(env) ==
    IF env # None THEN [kind |-> "bpk", dir |-> env]
    ELSE IF shm THEN [kind |-> "shm", dir |-> None]
    ELSE [kind |-> "bpk", dir |-> SysTmp]

MadeBy(h, want) ==
    /\ h # 0
    /\ handles[h].kind = want.kind
    /\ want.kind = "bpk" => handles[h].path.dir = want.dir

\* C5 as stated: a directory given by the environment or by an explicit
\* argument selects the file-backed strategy in that directory; otherwise
\* shared memory if available, otherwise a file in the default directory.
CexC5 ==
    (last.op = "persist") =>
        /\ last.err = "none"
        /\ MadeBy(last.s, Chosen(IF last.arg.env # None THEN last.arg.env
                                 ELSE last.arg.dir))

\* C5 as amended: persist(model) takes no directory; with LK_TEMP_DIR set it
\* makes a file-backed handle in that directory, else a shared-memory handle
\* if shared memory is available, else a file-backed handle in the default
\* temp directory; and the file of a file-backed original is gone once its
\* close(unlink=True) has returned.
ThmC5 ==
    /\ (last.op = "persist" /\ last.arg.dir = None) =>
          /\ last.err = "none"
          /\ MadeBy(last.s, Chosen(last.arg.env))
          /\ handles[last.s].is_owner /\ IsOriginal(last.s)
          /\ Resources(last.s) \subseteq Existing
    /\ \A h \in Handles :
          (JustClosed(h) /\ IsOriginal(h) /\ handles[h].kind = "bpk") =>
              handles[h].path \notin DOMAIN files

\* No override and no shared memory: the file went to the default directory,
\* and close(unlink=True) has removed it.
WitC5 ==
    \E h \in Handles :
        /\ ~shm /\ IsOriginal(h) /\ handles[h].kind = "bpk"
        /\ handles[h].path.dir = SysTmp
        /\ last.op = "close" /\ last.s = h /\ last.arg.unlink /\ last.err = "none"
        /\ handles[h].path \notin DOMAIN files
        /\ [res |-> handles[h].path, by |-> h] \in unlinks

\* C7: a system call that fails during close() is logged and not raised, and
\* a handle that was to give up its resources is no owner afterwards.
CexC7 ==
    (last.op = "close" /\ last.arg.fault # 0) =>
        /\ last.err = "none" /\ last.warn
        /\ (handles[last.s].kind = "shm" \/ last.arg.unlink) =>
              ~handles[last.s].is_owner

\* C20: after every __enter__ and __exit__, the activation count of every
\* store is the number of its occurrences in the activation stacks, and an
\* exit that failed the check of the stack top has not called shutdown().
CexC20 ==
    (last.op \in {"enter", "exit"}) =>
        /\ \A s \in Stores : act_count[s] = Occ(s)
        /\ last.err # "none" => last.calls = <<>>

\* C13: for both values of the flag, put_serialized loads the artifact, calls
\* put_model on the object loaded and returns the key put_model produced (on
\* the no-op store, the object).
CexC13 ==
    (last.op = "put_serialized") =>
        /\ last.err = "none"
        /\ last.calls # <<>> /\ last.calls[Len(last.calls)] = "put_model"
        /\ last.ret = last.arg.model

(***************************************************************************)
(* Properties of get_store.                                                *)
(***************************************************************************)

\* C11: whatever the calling thread's stack holds, get_store returns its top
\* (the innermost store entered and not yet exited) when reuse is true and the
\* stack is not empty, in_process or not, and constructs nothing; otherwise a
\* new NoopModelStore if in_process, else a new SHMModelStore if enabled, else
\* a new FileModelStore.  The call changes no stack and no activation count.
ThmC11 ==
    [][last'.op = "get_store" =>
          LET stack == active[last'.t]
              a == last'.arg
          IN /\ active' = active /\ act_count' = act_count /\ running' = running
             /\ (a.reuse /\ stack # <<>>) =>
                   last'.ret = [new |-> FALSE, store |-> stack[Len(stack)]]
             /\ (~(a.reuse /\ stack # <<>>) /\ a.in_process) =>
                   last'.ret = [new |-> TRUE, store |-> "NoopModelStore"]
             /\ (~(a.reuse /\ stack # <<>>) /\ ~a.in_process /\ a.enabled) =>
                   last'.ret = [new |-> TRUE, store |-> "SHMModelStore"]
             /\ (~(a.reuse /\ stack # <<>>) /\ ~a.in_process /\ ~a.enabled) =>
                   last'.ret = [new |-> TRUE, store |-> "FileModelStore"]]_vars

\* get_store(reuse=True, in_process=True) inside two nested activations of
\* different stores returned the inner one.
WitC11 ==
    /\ last.op = "get_store" /\ last.arg.reuse /\ last.arg.in_process
    /\ Len(active[last.t]) = 2 /\ active[last.t][1] # active[last.t][2]
    /\ last.ret = [new |-> FALSE, store |-> active[last.t][2]]

\* The step is a close(), with no system call failing, of the shared-memory
\* handle h that owns its segments, all of which exist.
OwnerClose(h) ==
    /\ last'.op = "close" /\ last'.s = h /\ last'.arg.fault = 0
    /\ handles[h].kind = "shm" /\ handles[h].is_owner
    /\ Resources(h) \subseteq DOMAIN segs

ThmC15 ==
    [][\A h \in Handles :
          (last'.s = h /\ last'.op \in {"get", "transmit", "close"}
             /\ handles[h].kind = "bpk") =>
             LET p == handles[h].path
             IN /\ last'.op # "close" => (files' = files /\ unlinks' = unlinks)
                /\ (last'.op = "close" /\ (files' # files \/ unlinks' # unlinks)) =>
                      /\ last'.arg.unlink /\ handles[h].is_owner
                      /\ p \in DOMAIN files /\ \A u \in unlinks : u.res # p
                      /\ DOMAIN files' = DOMAIN files \ {p}
                      /\ unlinks' = unlinks \cup {[res |-> p, by |-> h]}
                /\ (last'.op = "close" /\ ~last'.arg.unlink) =>
                      /\ files' = files /\ unlinks' = unlinks
                      /\ handles'[h].is_owner = handles[h].is_owner
                /\ (last'.op = "close" /\ last'.arg.unlink /\ handles[h].is_owner
                      /\ last'.err = "none") =>
                      /\ ~handles'[h].is_owner /\ p \notin DOMAIN files']_vars

\* The owner of a file, closed once with unlink=False and still the owner, has
\* removed the file in a later close; a copy of it has then been closed with
\* unlink=True, which found nothing to do.
WitC15 ==
    \E h, c \in Handles :
        /\ handles[h].kind = "bpk" /\ IsOriginal(h) /\ ~handles[h].is_owner
        /\ unlinks = {[res |-> handles[h].path, by |-> h]}
        /\ IsCopy(c) /\ handles[c].copy_of = h
        /\ last.op = "close" /\ last.s = c /\ last.arg.unlink /\ last.err = "none"
        /\ last.calls = <<>>

\* C16: in every state of a handle of either type, materialized or not, the
\* state it is serialized to holds its identifiers and neither the cached
\* object nor an open file or segment; the transmission succeeds and the copy
\* starts unmaterialized.
CexC16 ==
    (last.op = "transmit") =>
        LET hd == handles[last.s]
            st == last.ret
        IN /\ IF hd.kind = "bpk"
              THEN /\ st.path = hd.path
                   /\ st.model = None /\ ~st.bpk_file
              ELSE /\ st.pickle_data = hd.pickle_data
                   /\ st.buffer_specs = hd.buffer_specs
                   /\ DOMAIN st = {"pickle_data", "buffer_specs", "is_owner"}
           /\ last.err = "none"
           /\ handles[last.arg].model = None /\ ~handles[last.arg].bpk_file
           /\ handles[last.arg].buffers = <<>>

\* C17: for both handle types and every object, a get() on an instance that
\* was not read since it was made or closed opens the resource, and a get()
\* on an instance that was read, with no close() since, raises nothing, opens
\* no file and no segment, and returns the object the earlier get() returned.
CexC17 ==
    (last.op = "get" /\ last.err = "none") =>
        /\ ~last.arg => last.calls # <<>>
        /\ last.arg => /\ last.calls = <<>>
                       /\ last.ret = handles[last.s].model

\* The segments ever created for the original h: those that exist and those
\* that were removed.
CreatedFor(h) ==
    {n \in DOMAIN segs \cup {u.res : u \in unlinks} : n.dir = "shm" /\ n.id = h}

\* C18: the descriptor list of a shared-memory handle (and of its copies) has
\* one entry per buffer the object reported, the i-th naming the segment
\* created for the i-th buffer with that buffer's byte length; as many
\* segments were created as there are descriptors, each of the recorded
\* length; and a get() that materializes opens the segments and attaches views
\* of the recorded lengths in that order.
ThmC18 ==
    /\ \A h \in Handles :
          handles[h].kind = "shm" =>
             LET sp == handles[h].buffer_specs
                 sz == BufSizes(handles[h].pickle_data)
                 o == IF handles[h].copy_of = 0 THEN h ELSE handles[h].copy_of
             IN /\ Len(sp) = Len(sz)
                /\ \A i \in 1..Len(sp) :
                      /\ sp[i][1] = [dir |-> "shm", id |-> o, i |-> i]
                      /\ sp[i][2] = sz[i]
                      /\ sp[i][1] \in DOMAIN segs => segs[sp[i][1]] = sz[i]
                /\ Cardinality(CreatedFor(o)) = Len(sp)
                /\ (last.op = "persist" /\ last.s = h) =>
                      /\ handles[h].buffers = [i \in 1..Len(sp) |-> sp[i][1]]
                      /\ \A i \in 1..Len(sp) : sp[i][1] \in DOMAIN segs
    /\ (last.op = "get" /\ last.err = "none" /\ last.calls # <<>>
          /\ handles[last.s].kind = "shm") =>
             LET sp == handles[last.s].buffer_specs
                 sz == BufSizes(handles[last.s].pickle_data)
             IN /\ last.calls = [i \in 1..Len(sz) |-> "open"]
                /\ last.views = [i \in 1..Len(sz) |-> <<sp[i][1], sz[i]>>]
                /\ handles[last.s].buffers = [i \in 1..Len(sz) |-> sp[i][1]]

\* A copy of a handle with two buffers of different lengths has been
\* materialized.
WitC18 ==
    /\ last.op = "get" /\ last.err = "none" /\ IsCopy(last.s)
    /\ handles[last.s].kind = "shm"
    /\ Len(last.views) = 2 /\ last.views[1][2] # last.views[2][2]
    /\ last.views[1][1].i = 1 /\ last.views[2][1].i = 2

\* The persist call of the step ran its dump: it returned, or it failed in or
\* after the dump.
Dumped ==
    /\ last'.op = "persist"
    /\ \/ last'.err = "none"
       \/ /\ last'.err = "OSError"
          /\ ~(Strategy(environ) # "shm" /\ last'.arg.fault = 1)

\* C19: with either strategy the dump of a persist call runs while the mode
\* of the calling thread is 'share'; and when the call has returned or failed,
\* _save_mode() on that thread is what it was before the call, the open
\* scopes are as they were, and the mode of the other thread is untouched.
ThmC19 ==
    [][last'.op = "persist" =>
          LET t == last'.t
          IN /\ Dumped => last'.dump = "share"
             /\ ~Dumped => last'.dump = None
             /\ (IF mode'[t] = "unset" THEN "save" ELSE mode'[t]) = SaveMode(t)
             /\ scopes' = scopes
             /\ \A u \in Threads \ {t} : mode'[u] = mode[u]]_vars

\* Outside every scope, a failed shared-memory persist whose dump had begun
\* has left the mode 'save'; another thread is inside a scope.
WitC19 ==
    /\ last.op = "persist" /\ last.err = "OSError" /\ last.dump = "share"
    /\ Strategy(environ) = "shm"
    /\ SaveMode(last.t) = "save" /\ scopes[last.t] = <<>>
    /\ \E u \in Threads \ {last.t} : mode[u] = "share"

\* C12: a persist call that fails while creating its resources raises, returns
\* no handle, and leaves no file and no segment that was not there before.
CexC12 ==
    [][(last'.op = "persist" /\ last'.err = "OSError") =>
          /\ last'.ret = None /\ handles' = handles
          /\ files' = files /\ segs' = segs]_vars

(***************************************************************************)
(* Properties of the SharedObject wrapper.                                 *)
(***************************************************************************)

\* The step is the first release (direct, or by __exit__) of wrapper w.
FirstRelease(w) ==
    /\ last'.op \in {"release", "wrap_exit"} /\ last'.s = w
    /\ wrappers[w].made /\ wrappers[w].held

\* C6 as stated: the release of a wrapper got from get_model warns exactly
\* when the object has more references than it had when the wrapper was
\* acquired; it raises nothing and the wrapper lets go of the object.
CexC6 ==
    [][\A w \in Wrappers :
          FirstRelease(w) =>
             /\ last'.err = "none" /\ ~wrappers'[w].held
             /\ last'.warn <=>
                   GetRefcount(wrappers, wrappers[w].object) > wrappers[w].acq]_vars

\* C6 as amended: the baseline is the reference count __enter__ recorded.  The
\* first release of a wrapper that was entered warns exactly when the object
\* has more references than at entry; the release of a wrapper that was never
\* entered warns never, whatever references are held.  In every case it raises
\* nothing and the wrapper lets go of the object.
ThmC6 ==
    [][\A w \in Wrappers :
          FirstRelease(w) =>
             /\ last'.err = "none" /\ ~wrappers'[w].held
             /\ extrefs' = extrefs
             /\ last'.warn <=>
                   /\ wrappers[w].rc # 0
                   /\ GetRefcount(wrappers, wrappers[w].object) > wrappers[w].rc]_vars

\* An entered wrapper released with a warning, while the caller holds a
\* reference to its object.
WitC6 ==
    \E w \in Wrappers :
        /\ last.op = "release" /\ last.s = w /\ last.warn /\ last.err = "none"
        /\ wrappers[w].made /\ ~wrappers[w].held /\ wrappers[w].rc # 0
        /\ \E x \in Objects : extrefs[x] >= 1

\* C21: a release() of a wrapper that was released already, and the exit of
\* a with-scope in which release() was called, raise nothing, warn of nothing
\* and change nothing.
CexC21 ==
    [][\A w \in Wrappers :
          (last'.op \in {"release", "wrap_exit"} /\ last'.s = w
             /\ wrappers[w].made /\ ~wrappers[w].held) =>
             /\ last'.err = "none" /\ ~last'.warn
             /\ wrappers' = wrappers /\ extrefs' = extrefs]_vars

(***************************************************************************)
(* Properties of interleaved activations.                                  *)
(***************************************************************************)

\* C22: however the steps of the __enter__ and __exit__ calls of two threads
\* on one store interleave, init() is not run on a store that is initialized
\* and shutdown() is not run on one that is not (one init() per activation of
\* the store, one shutdown() per deactivation); while no call is in progress
\* the count is the number of activations open on the two stacks and the store
\* is initialized exactly when that number is not zero; and no exit fails the
\* check of the top of its stack.
CexC22 ==
    /\ \A s \in Stores : running[s] \in {0, 1}
    /\ (\A t \in Threads : At(t, "idle")) =>
          \A s \in Stores :
             /\ act_count[s] = Occ(s)
             /\ running[s] = IF Occ(s) > 0 THEN 1 ELSE 0
    /\ last.op = "exit_pop" => last.err = "none"

\* C22, the part that holds: every thread being LIFO on its own stack, no
\* __exit__ fails the check of the top of the stack, whatever the interleaving.
LifoC22 == last.op = "exit_pop" => last.err = "none"

====
